---- MODULE Spec2Model ----
(***************************************************************************)
(* A model of hbaselines/ppo/policy.py (class Model: the PPO loss and its  *)
(* gradient-update step, run by one process per MPI rank) and of the two   *)
(* static helpers of hbaselines/base_policies/base.py (class Policy).      *)
(*                                                                         *)
(* Tensors hold exact rationals <<numerator, denominator>> in lowest terms *)
(* with a positive denominator.  The inputs are drawn from sets on which   *)
(* every operation of the code (sqrt included) has a rational result, so   *)
(* the arithmetic of the model is exact.                                   *)
(***************************************************************************)
EXTENDS Integers, Sequences, FiniteSets, TLC

\* ------------------------------------------------------------------------
\* Bounds of the model
\* ------------------------------------------------------------------------
\* the longest batch passed to Model.train
MaxBatch == 2
\* the number of train calls one process makes
MaxUpdates == 1
\* the largest rank (number of axes) of a gym space shape
MaxRank == 2
\* the largest size of one axis of a gym space shape
MaxDim == 3

\* ------------------------------------------------------------------------
\* float32 tensors as exact rationals
\* ------------------------------------------------------------------------
Abs(n) == IF n < 0 THEN -n ELSE n

RECURSIVE GCD(_, _)
GCD(a, b) == IF b = 0 THEN a ELSE GCD(b, a % b)

\* the rational n/d (d # 0) in lowest terms
Rat(n, d) ==
    IF d = 1 THEN <<n, 1>>
    ELSE LET s == IF d < 0 THEN -1 ELSE 1
             g == GCD(Abs(n), Abs(d))
         IN  <<(s * n) \div g, (s * d) \div g>>

Zero == Rat(0, 1)
\* the literal 1.0 of the clipping bounds
One == Rat(1, 1)
\* the literal .5 of vf_loss and approxkl
Half == Rat(1, 2)

RAdd(a, b) ==
    IF a[2] = b[2] THEN Rat(a[1] + b[1], a[2])
    ELSE Rat(a[1] * b[2] + b[1] * a[2], a[2] * b[2])

RNeg(a) == <<-a[1], a[2]>>

RSub(a, b) == RAdd(a, RNeg(b))

RMul(a, b) == Rat(a[1] * b[1], a[2] * b[2])

\* a / b, for b # 0
RDiv(a, b) == RMul(a, Rat(b[2], b[1]))

RLe(a, b) == a[1] * b[2] <= b[1] * a[2]

RLt(a, b) == a[1] * b[2] < b[1] * a[2]

\* tf.maximum
RMax(a, b) == IF RLe(a, b) THEN b ELSE a

\* tf.minimum, as used inside tf.clip_by_value
RMin(a, b) == IF RLe(a, b) THEN a ELSE b

\* tf.abs
RAbs(a) == <<Abs(a[1]), a[2]>>

\* tf.square
RSquare(a) == RMul(a, a)

\* the integer square root of a perfect square n >= 0, and -1 for any other n
ISqrt(n) ==
    IF \E k \in 0..n : k * k = n THEN CHOOSE k \in 0..n : k * k = n ELSE -1

\* whether sqrt(a) is rational
IsSquare(a) == a[1] >= 0 /\ ISqrt(a[1]) >= 0 /\ ISqrt(a[2]) >= 0

\* sqrt(a), for a rational square a
RSqrt(a) == <<ISqrt(a[1]), ISqrt(a[2])>>

RECURSIVE RSum(_)
RSum(s) == IF s = <<>> THEN Zero ELSE RAdd(Head(s), RSum(Tail(s)))

\* tf.reduce_mean / numpy mean of a non-empty vector
ReduceMean(s) == RDiv(RSum(s), Rat(Len(s), 1))

\* tf.clip_by_value(t, lo, hi) = minimum(maximum(t, lo), hi)
ClipByValue(t, lo, hi) == RMin(RMax(t, lo), hi)

\* tf.exp, to three decimals, at the points the batches of the model reach
Exp(x) ==
    CASE x = <<0, 1>> -> <<1, 1>>
      [] x = <<1, 10>> -> <<221, 200>>
      [] x = <<-1, 10>> -> <<181, 200>>
      [] x = <<1, 2>> -> <<1649, 1000>>
      [] x = <<-1, 2>> -> <<607, 1000>>

\* ------------------------------------------------------------------------
\* Model.train: the feed dictionary (policy.py, lines 192-211)
\* ------------------------------------------------------------------------
\* A batch is a sequence of samples.  A sample holds what the caller passes
\* for it (ret: returns, val: values, oldnlp: neglogpacs) and what
\* train_model computes for its observation and action under the current
\* parameters (nlp: pd.neglogp(A), vpred: vf, ent: pd.entropy()).
Field(batch, f) == [i \in 1..Len(batch) |-> batch[i][f]]

\* the batches of n samples over the given samples
Batches(samples, n) == [1..n -> samples]

\* advs = returns - values
RawAdvs(returns, values) ==
    [i \in 1..Len(returns) |-> RSub(returns[i], values[i])]

\* numpy's advs.std(): the population standard deviation
Std(advs) ==
    LET m == ReduceMean(advs)
    IN  RSqrt(ReduceMean([i \in 1..Len(advs) |-> RSquare(RSub(advs[i], m))]))

\* NormalizeAdvs with the mean left in: advs / (advs.std() + 1e-8)
NormalizeAdvsNoMean(advs) ==
    LET s == Std(advs)
    IN  [i \in 1..Len(advs) |-> IF s = Zero THEN Zero ELSE RDiv(advs[i], s)]

\* advs = (advs - advs.mean()) / (advs.std() + 1e-8).  The 1e-8 is below
\* the resolution of the float32 placeholder for a deviation of order one;
\* what it decides is the batch of zero deviation, where every numerator is
\* 0 and 0 / 1e-8 = 0.
NormalizeAdvs(advs) ==
    LET m == ReduceMean(advs)
        s == Std(advs)
    IN  [i \in 1..Len(advs) |->
            IF s = Zero THEN Zero ELSE RDiv(RSub(advs[i], m), s)]

\* the advantages fed to the placeholder ADV
FedAdvs(returns, values) == NormalizeAdvs(RawAdvs(returns, values))

\* td_map of Model.train
TdMap(lr, clip_range, batch) ==
    [ADV |-> FedAdvs(Field(batch, "ret"), Field(batch, "val")),
     R |-> Field(batch, "ret"),
     LR |-> lr,
     clip_range |-> clip_range,
     OLDNEGLOGPAC |-> Field(batch, "oldnlp"),
     OLDVPRED |-> Field(batch, "val")]

\* ------------------------------------------------------------------------
\* Model.__init__, part 2: the loss (policy.py, lines 80-114)
\* ------------------------------------------------------------------------
\* entropy = tf.reduce_mean(train_model.pd.entropy())
Entropy(ent) == ReduceMean(ent)

\* VPredClipped without the old prediction added back
VPredClippedDifference(vpred, OLDVPRED, c) ==
    [i \in 1..Len(vpred) |->
        ClipByValue(RSub(vpred[i], OLDVPRED[i]), RNeg(c), c)]

\* vpredclipped = OLDVPRED + clip(vf - OLDVPRED, -clip_range, clip_range)
VPredClipped(vpred, OLDVPRED, c) ==
    [i \in 1..Len(vpred) |->
        RAdd(OLDVPRED[i], ClipByValue(RSub(vpred[i], OLDVPRED[i]), RNeg(c), c))]

\* vf_losses1 = tf.square(vpred - R)
VfLosses1(vpred, R) == [i \in 1..Len(vpred) |-> RSquare(RSub(vpred[i], R[i]))]

\* vf_losses2 = tf.square(vpredclipped - R)
VfLosses2(vpred, OLDVPRED, R, c) ==
    LET vc == VPredClipped(vpred, OLDVPRED, c)
    IN  [i \in 1..Len(vpred) |-> RSquare(RSub(vc[i], R[i]))]

\* tf.maximum(vf_losses1, vf_losses2)
VfLosses(vpred, OLDVPRED, R, c) ==
    LET l1 == VfLosses1(vpred, R)
        l2 == VfLosses2(vpred, OLDVPRED, R, c)
    IN  [i \in 1..Len(vpred) |-> RMax(l1[i], l2[i])]

\* vf_loss = .5 * tf.reduce_mean(tf.maximum(vf_losses1, vf_losses2))
VfLoss(vf_losses) == RMul(Half, ReduceMean(vf_losses))

\* ratio = tf.exp(OLDNEGLOGPAC - neglogpac)
Ratio(OLDNEGLOGPAC, neglogpac) ==
    [i \in 1..Len(neglogpac) |-> Exp(RSub(OLDNEGLOGPAC[i], neglogpac[i]))]

\* pg_losses = -ADV * ratio
PgLosses1(ADV, ratio) == [i \in 1..Len(ADV) |-> RMul(RNeg(ADV[i]), ratio[i])]

\* pg_losses2 = -ADV * clip(ratio, 1.0 - clip_range, 1.0 + clip_range)
PgLosses2(ADV, ratio, c) ==
    [i \in 1..Len(ADV) |->
        RMul(RNeg(ADV[i]), ClipByValue(ratio[i], RSub(One, c), RAdd(One, c)))]

\* PgLosses with tf.minimum for tf.maximum
PgLossesMinimum(ADV, ratio, c) ==
    LET l1 == PgLosses1(ADV, ratio)
        l2 == PgLosses2(ADV, ratio, c)
    IN  [i \in 1..Len(ADV) |-> RMin(l1[i], l2[i])]

\* tf.maximum(pg_losses, pg_losses2)
PgLosses(ADV, ratio, c) ==
    LET l1 == PgLosses1(ADV, ratio)
        l2 == PgLosses2(ADV, ratio, c)
    IN  [i \in 1..Len(ADV) |-> RMax(l1[i], l2[i])]

\* pg_loss = tf.reduce_mean(tf.maximum(pg_losses, pg_losses2))
PgLoss(pg_losses) == ReduceMean(pg_losses)

\* approxkl = .5 * tf.reduce_mean(tf.square(neglogpac - OLDNEGLOGPAC))
ApproxKl(neglogpac, OLDNEGLOGPAC) ==
    RMul(Half, ReduceMean([i \in 1..Len(neglogpac) |->
                              RSquare(RSub(neglogpac[i], OLDNEGLOGPAC[i]))]))

\* Clipped with tf.greater_equal for tf.greater
ClippedOrEqual(r, c) == IF RLe(c, RAbs(RSub(r, One))) THEN One ELSE Zero

\* tf.to_float(tf.greater(tf.abs(ratio - 1.0), clip_range)), one sample
Clipped(r, c) == IF RLt(c, RAbs(RSub(r, One))) THEN One ELSE Zero

\* clipfrac = tf.reduce_mean(...)
ClipFrac(ratio, c) == ReduceMean([i \in 1..Len(ratio) |-> Clipped(ratio[i], c)])

\* Loss with the entropy added as a penalty
LossEntropyPenalty(pg_loss, entropy, vf_loss, ent_coef, vf_coef) ==
    RAdd(RAdd(pg_loss, RMul(entropy, ent_coef)), RMul(vf_loss, vf_coef))

\* loss = pg_loss - entropy * ent_coef + vf_loss * vf_coef
Loss(pg_loss, entropy, vf_loss, ent_coef, vf_coef) ==
    RAdd(RSub(pg_loss, RMul(entropy, ent_coef)), RMul(vf_loss, vf_coef))

\* the tensors of the loss for one feed dictionary td and the outputs net
\* of train_model
Tensors(td, net) ==
    [ratio |-> Ratio(td.OLDNEGLOGPAC, net.neglogpac),
     vpredclipped |-> VPredClipped(net.vf, td.OLDVPRED, td.clip_range),
     vf_losses |-> VfLosses(net.vf, td.OLDVPRED, td.R, td.clip_range),
     pg_losses |-> PgLosses(td.ADV, Ratio(td.OLDNEGLOGPAC, net.neglogpac),
                            td.clip_range)]

\* stats_list = [pg_loss, vf_loss, entropy, approxkl, clipfrac]
StatsList(td, net, t) ==
    [policy_loss |-> PgLoss(t.pg_losses),
     value_loss |-> VfLoss(t.vf_losses),
     policy_entropy |-> Entropy(net.entropy),
     approxkl |-> ApproxKl(net.neglogpac, td.OLDNEGLOGPAC),
     clipfrac |-> ClipFrac(t.ratio, td.clip_range)]

\* ------------------------------------------------------------------------
\* Model.__init__: the update (policy.py, lines 116-134)
\* ------------------------------------------------------------------------
\* Python's None; an optional integer or space k is <<k>>
None == <<>>

\* trainer.compute_gradients(loss, params): d loss / d params[i].  The
\* derivative is linear, so with jac.pg[i], jac.ent[i] and jac.vf[i] the
\* derivatives of pg_loss, entropy and vf_loss with respect to params[i]
\* (the automatic differentiation of the policy network, an input here), it
\* is the same combination as the loss.
ComputeGradients(jac, ent_coef, vf_coef) ==
    [i \in 1..Len(jac.pg) |->
        Loss(jac.pg[i], jac.ent[i], jac.vf[i], ent_coef, vf_coef)]

\* the sum of the squares of the gradients
SumSquares(grads) == RSum([i \in 1..Len(grads) |-> RSquare(grads[i])])

\* tf.global_norm
GlobalNorm(grads) == RSqrt(SumSquares(grads))

\* ClipByGlobalNorm with every gradient clipped by its own norm
\* (tf.clip_by_norm on each)
ClipByOwnNorm(grads, clip_norm) ==
    [i \in 1..Len(grads) |->
        RMul(grads[i], RDiv(clip_norm, RMax(RAbs(grads[i]), clip_norm)))]

\* tf.clip_by_global_norm(grads, clip_norm)[0]:
\* grads[i] * clip_norm / max(global_norm, clip_norm)
ClipByGlobalNorm(grads, clip_norm) ==
    LET scale == RDiv(clip_norm, RMax(GlobalNorm(grads), clip_norm))
    IN  [i \in 1..Len(grads) |-> RMul(grads[i], scale)]

\* if max_grad_norm is not None: grads, _ = clip_by_global_norm(grads, ...)
ClippedGrads(grads, max_grad_norm) ==
    IF max_grad_norm # None THEN ClipByGlobalNorm(grads, max_grad_norm)
    ELSE grads

\* grads_and_var = list(zip(grads, var))
GradsAndVar(grads, var) ==
    [i \in 1..Len(var) |-> [grad |-> grads[i], var |-> var[i]]]

\* trainer.apply_gradients(grads_and_var), run by sess.run in Model.train,
\* on the values of the variables.  The Adam step is abstracted to what the
\* claims rest on: it is a function of the process's own gradients and
\* learning rate, and moves each variable of a pair against its gradient.
ApplyGradients(values, grads_and_var, lr) ==
    [n \in DOMAIN values |->
        IF \E i \in 1..Len(grads_and_var) : grads_and_var[i].var = n
        THEN LET i == CHOOSE i \in 1..Len(grads_and_var) :
                          grads_and_var[i].var = n
             IN  RSub(values[n], RMul(lr, grads_and_var[i].grad))
        ELSE values[n]]

\* ------------------------------------------------------------------------
\* The processes and their state
\* ------------------------------------------------------------------------
\* the ranks of comm (MPI.COMM_WORLD); sync_from_root broadcasts from rank 0
Ranks == {0, 1}
Root == 0

VARIABLES
    MPI,        \* TRUE when the import of mpi4py succeeded, FALSE: MPI = None
    hyper,      \* the arguments of Model.__init__
    pc,         \* per rank: where Model.__init__ stands
    graph,      \* per rank: act_model, train_model, params, global variables
    store,      \* per rank: the session's value of every global variable
    comm,       \* the message of comm.bcast: <<>>, or <<root's values>>
    saved,      \* the file of save / load: <<>>, or <<the values saved>>
    nupdates,   \* per rank: the train calls made
    restored,   \* per rank: whether load has overwritten the variables
    last,       \* <<>>, or <<what the latest train call fed and computed>>
    acted,      \* <<>>, or <<the parameters the latest step has read>>
    spaces,     \* Policy: ob_space and co_space
    ob_dim,     \* <<>>, or <<the result of Policy._get_ob_dim>>
    processed   \* <<>>, or <<the shape of the result of Policy._get_obs>>

modelVars == <<MPI, hyper, pc, graph, store, comm, saved, nupdates, restored,
               last, acted>>
policyVars == <<spaces, ob_dim, processed>>
vars == <<MPI, hyper, pc, graph, store, comm, saved, nupdates, restored,
          last, acted, spaces, ob_dim, processed>>

\* ------------------------------------------------------------------------
\* Model.__init__: the two models and their variables (policy.py, 47-56)
\* ------------------------------------------------------------------------
\* with tf.variable_scope('ppo2_model', reuse=tf.AUTO_REUSE)
Scope == "ppo2_model"

\* the variables one policy network asks for: its actor and its critic
PolicyVariables == <<"pi", "vf">>

\* GetVariable without reuse: a second request makes a second variable
GetVariableNoReuse(coll, scope, name) ==
    IF \E i \in 1..Len(coll) : coll[i] = <<scope, name>>
    THEN <<scope, name, "_1">>
    ELSE <<scope, name>>

\* tf.get_variable under reuse=tf.AUTO_REUSE: the variable of that scope and
\* name, the existing one when the collection holds it
GetVariable(coll, scope, name) == <<scope, name>>

Append1(coll, n) ==
    IF \E i \in 1..Len(coll) : coll[i] = n THEN coll ELSE Append(coll, n)

RECURSIVE BuildPolicy(_, _, _, _)
\* policy(nbatch, nsteps, sess): asks for its variables one after another;
\* [vars: the variables the network reads, coll: the collection afterwards]
BuildPolicy(coll, scope, names, got) ==
    IF names = <<>> THEN [vars |-> got, coll |-> coll]
    ELSE LET v == GetVariable(coll, scope, Head(names))
         IN  BuildPolicy(Append1(coll, v), scope, Tail(names), Append(got, v))

\* tf.trainable_variables('ppo2_model'): the variables under the scope
TrainableVariables(coll, scope) == SelectSeq(coll, LAMBDA n : n[1] = scope)

\* the batch size train_model is built for
TrainBatchSize(h) ==
    IF h.microbatch_size = None THEN h.nbatch_train ELSE h.microbatch_size[1]

\* the graph after lines 42-146
BuiltGraph(h) ==
    LET act == BuildPolicy(<<>>, Scope, PolicyVariables, <<>>)
        train == BuildPolicy(act.coll, Scope, PolicyVariables, <<>>)
    IN  [act_model |-> act.vars,
         train_model |-> train.vars,
         train_nbatch |-> TrainBatchSize(h),
         params |-> TrainableVariables(train.coll, Scope),
         global_variables |-> train.coll]

Range(f) == {f[i] : i \in DOMAIN f}

Uninitialized == <<>>

NoGraph ==
    [act_model |-> <<>>, train_model |-> <<>>, train_nbatch |-> 0,
     params |-> <<>>, global_variables |-> <<>>]

\* the seeds of a process's random initializers, and the value a seed
\* gives a variable
Seeds == {0, 1}

InitialValue(seed, n) == IF (n[2] = "pi") = (seed = 0) THEN Zero ELSE One

\* AfterInitialize without the broadcast
AfterInitializeNoSync(mpi) == "ready"

\* where __init__ goes after initialize(): to the broadcast when MPI was
\* imported, and to its end otherwise (lines 148-152)
AfterInitialize(mpi) == IF mpi THEN "sync" ELSE "ready"

\* lines 42-146: the graph is built; no variable has a value yet
BuildGraph(r) ==
    /\ pc[r] = "start"
    /\ graph' = [graph EXCEPT ![r] = BuiltGraph(hyper)]
    /\ store' = [store EXCEPT ![r] =
                    [n \in Range(BuiltGraph(hyper).global_variables) |->
                        Uninitialized]]
    /\ pc' = [pc EXCEPT ![r] = "built"]
    /\ UNCHANGED <<MPI, hyper, comm, saved, nupdates, restored, last, acted>>
    /\ UNCHANGED policyVars

\* line 148, initialize(): every variable gets its initial value
Initialize(r) ==
    /\ pc[r] = "built"
    /\ \E seed \in Seeds :
          store' = [store EXCEPT ![r] =
                       [n \in DOMAIN store[r] |-> InitialValue(seed, n)]]
    /\ pc' = [pc EXCEPT ![r] = AfterInitialize(MPI)]
    /\ UNCHANGED <<MPI, hyper, graph, comm, saved, nupdates, restored, last,
                   acted>>
    /\ UNCHANGED policyVars

\* lines 149-152, sync_from_root(sess, global_variables, comm): comm.bcast
\* of the root's values, which every rank then assigns to its variables; a
\* rank other than the root waits for the root's message
SyncFromRoot(r) ==
    /\ pc[r] = "sync"
    /\ IF r = Root
       THEN /\ comm' = <<store[r]>>
            /\ store' = store
       ELSE /\ comm # <<>>
            /\ store' = [store EXCEPT ![r] = comm[1]]
            /\ comm' = comm
    /\ pc' = [pc EXCEPT ![r] = "ready"]
    /\ UNCHANGED <<MPI, hyper, graph, saved, nupdates, restored, last, acted>>
    /\ UNCHANGED policyVars

\* Model.step / Model.value are act_model's: they read act_model's variables
Step(r) ==
    /\ pc[r] = "ready"
    /\ acted' = <<[i \in 1..Len(graph[r].act_model) |->
                     store[r][graph[r].act_model[i]]]>>
    /\ UNCHANGED <<MPI, hyper, pc, graph, store, comm, saved, nupdates,
                   restored, last>>
    /\ UNCHANGED policyVars

\* Model.save = save_variables: the values of the variables go to the file
Save(r) ==
    /\ pc[r] = "ready"
    /\ saved' = <<store[r]>>
    /\ UNCHANGED <<MPI, hyper, pc, graph, store, comm, nupdates, restored,
                   last, acted>>
    /\ UNCHANGED policyVars

\* Model.load = load_variables: every variable takes its value of the file
Load(r) ==
    /\ pc[r] = "ready"
    /\ saved # <<>>
    /\ store' = [store EXCEPT ![r] = saved[1]]
    /\ restored' = [restored EXCEPT ![r] = TRUE]
    /\ UNCHANGED <<MPI, hyper, pc, graph, comm, saved, nupdates, last, acted>>
    /\ UNCHANGED policyVars

\* what train_model computes for a batch: the tensors the loss is built on
Net(batch) ==
    [neglogpac |-> Field(batch, "nlp"),
     vf |-> Field(batch, "vpred"),
     entropy |-> Field(batch, "ent")]

\* whether the arithmetic of a train call is rational: the deviation of the
\* advantages, and the global norm when the gradients are clipped
Exact(batch, jac, h) ==
    LET advs == RawAdvs(Field(batch, "ret"), Field(batch, "val"))
        m == ReduceMean(advs)
    IN  /\ IsSquare(ReduceMean([i \in 1..Len(advs) |->
                                   RSquare(RSub(advs[i], m))]))
        /\ h.max_grad_norm # None =>
              IsSquare(SumSquares(ComputeGradients(jac, h.ent_coef,
                                                   h.vf_coef)))

\* sess.run(stats_list + [_train_op], td_map): what one run of the graph
\* of lines 80-134 computes from the feed dictionary
SessRun(var, h, lr, clip_range, batch, jac) ==
    LET td == TdMap(lr, clip_range, batch)
        net == Net(batch)
        tensors == Tensors(td, net)
        stats == StatsList(td, net, tensors)
        loss == Loss(stats.policy_loss, stats.policy_entropy,
                     stats.value_loss, h.ent_coef, h.vf_coef)
        computed == ComputeGradients(jac, h.ent_coef, h.vf_coef)
        grads == ClippedGrads(computed, h.max_grad_norm)
    IN  [jac |-> jac, td |-> td, net |-> net,
         tensors |-> tensors, stats |-> stats, loss |-> loss,
         computed |-> computed,
         grads |-> grads, var |-> var,
         grads_and_var |-> GradsAndVar(grads, var)]

\* Model.train(lr, clip_range, obs, returns, masks, actions, values,
\* neglogpacs), lines 192-216, with the graph of lines 80-134 it runs; the
\* caller's arguments are drawn from the given sets
Train(r, lrs, clip_ranges, samples, jacs) ==
    /\ pc[r] = "ready"
    /\ nupdates[r] < MaxUpdates
    /\ \E lr \in lrs, clip_range \in clip_ranges, jac \in jacs,
          batch \in Batches(samples, graph[r].train_nbatch) :
          /\ Exact(batch, jac, hyper)
          /\ last' = <<SessRun(graph[r].params, hyper, lr, clip_range,
                               batch, jac)>>
    /\ store' = [store EXCEPT ![r] =
                    ApplyGradients(store[r], last'[1].grads_and_var,
                                   last'[1].td.LR)]
    /\ nupdates' = [nupdates EXCEPT ![r] = @ + 1]
    /\ UNCHANGED <<MPI, hyper, pc, graph, comm, saved, restored, acted>>
    /\ UNCHANGED policyVars

\* ------------------------------------------------------------------------
\* Policy._get_obs and Policy._get_ob_dim (base.py, lines 130-184)
\* ------------------------------------------------------------------------
Min(a, b) == IF a <= b THEN a ELSE b

\* Zip as itertools.zip_longest with a fill value of 0
ZipLongest(a, b) ==
    [i \in 1..(IF Len(a) <= Len(b) THEN Len(b) ELSE Len(a)) |->
        <<IF i <= Len(a) THEN a[i] ELSE 0, IF i <= Len(b) THEN b[i] ELSE 0>>]

\* zip(a, b): as long as the shorter of the two
Zip(a, b) == [i \in 1..Min(Len(a), Len(b)) |-> <<a[i], b[i]>>]

\* tuple(map(sum, pairs))
MapSum(pairs) == [i \in 1..Len(pairs) |-> pairs[i][1] + pairs[i][2]]

\* Policy._get_ob_dim(ob_space, co_space)
GetObDim(ob_space, co_space) ==
    IF co_space # None THEN MapSum(Zip(ob_space.shape, co_space[1].shape))
    ELSE ob_space.shape

RECURSIVE Product(_)
Product(shape) == IF shape = <<>> THEN 1 ELSE Head(shape) * Product(Tail(shape))

\* the shape of context.flatten()
Flatten(shape) == <<Product(shape)>>

\* the shape of np.concatenate((a, b), axis=axis) of arrays of shapes a and
\* b: the arrays must have the same number of axes, at least axis + 1 of
\* them, and agree on every axis but that one; numpy raises otherwise
Concatenate(a, b, axis) ==
    IF /\ Len(a) = Len(b)
       /\ axis + 1 <= Len(a)
       /\ \A i \in 1..Len(a) : i # axis + 1 => a[i] = b[i]
    THEN [raised |-> FALSE,
          shape |-> [i \in 1..Len(a) |->
                        IF i = axis + 1 THEN a[i] + b[i] ELSE a[i]]]
    ELSE [raised |-> TRUE, shape |-> <<>>]

\* Policy._get_obs(obs, context, axis), on the shapes of obs and context
GetObs(obs, context, axis) ==
    IF context # None
    THEN Concatenate(obs,
                     IF axis = 0 THEN Flatten(context[1]) ELSE context[1],
                     axis)
    ELSE [raised |-> FALSE, shape |-> obs]

\* the shapes of the gym spaces
Shapes == UNION {[1..n -> 1..MaxDim] : n \in 0..MaxRank}

Spaces == [shape : Shapes]

CallGetObDim ==
    /\ ob_dim' = <<GetObDim(spaces.ob_space, spaces.co_space)>>
    /\ UNCHANGED <<spaces, processed>>
    /\ UNCHANGED modelVars

\* _get_obs on an observation of ob_space and a context of co_space
CallGetObs ==
    /\ \E axis \in {0, 1} :
          processed' =
             <<[axis |-> axis,
                obs |-> GetObs(spaces.ob_space.shape,
                               IF spaces.co_space = None THEN None
                               ELSE <<spaces.co_space[1].shape>>,
                               axis)]>>
    /\ UNCHANGED <<spaces, ob_dim>>
    /\ UNCHANGED modelVars

\* ------------------------------------------------------------------------
\* The inputs
\* ------------------------------------------------------------------------
\* what train_model computes for one sample: negative log-probabilities
\* that, against an old one of 1/2, give ratios above, inside and below the
\* clipping band, and predictions at, near and far from the values 0 and 1.
\* The policy loss reads nlp alone and the value loss vpred alone, so the
\* two vary together.
NetOutputs ==
    {[nlp |-> Zero, vpred |-> Zero], [nlp |-> Rat(2, 5), vpred |-> Rat(1, 10)],
     [nlp |-> Half, vpred |-> One], [nlp |-> Half, vpred |-> Rat(1, 10)],
     [nlp |-> Rat(3, 5), vpred |-> Zero], [nlp |-> One, vpred |-> One]}

\* the samples of the loss: returns and values of 0 and 1
LossSamples ==
    {[ret |-> ret, val |-> val, oldnlp |-> Half, nlp |-> out.nlp,
      vpred |-> out.vpred, ent |-> One] :
        ret \in {Zero, One}, val \in {Zero, One}, out \in NetOutputs}

ClipRanges == {Zero, Rat(1, 5), Rat(2, 1)}

\* the samples of the update: two returns and two policy outputs
UpdateSamples ==
    [ret : {Zero, One}, val : {Zero}, oldnlp : {Half}, nlp : {Rat(2, 5), One},
     vpred : {Rat(1, 10)}, ent : {One}]

\* the sample of the processes of one run
RankSamples ==
    [ret : {One}, val : {Zero}, oldnlp : {Half}, nlp : {Rat(2, 5)},
     vpred : {Rat(1, 10)}, ent : {One}]

\* the derivatives of pg_loss, entropy and vf_loss by <<pi, vf>>
NoJacobian ==
    [pg |-> <<Zero, Zero>>, ent |-> <<Zero, Zero>>, vf |-> <<Zero, Zero>>]

Jacobians ==
    [pg : {<<Rat(3, 1), Zero>>, <<Rat(-3, 1), Zero>>, <<Zero, Zero>>},
     ent : {<<Zero, Zero>>, <<Rat(3, 1), Zero>>},
     vf : {<<Zero, Rat(4, 1)>>, <<Zero, Rat(8, 1)>>}]

\* the derivatives two processes see on their own batches
RankJacobians ==
    {[pg |-> <<g, Zero>>, ent |-> <<Zero, Zero>>, vf |-> <<Zero, Zero>>] :
        g \in {Rat(1, 1), Rat(-1, 1)}}

Hypers(ent_coefs, vf_coefs, norms, nbatches, microbatches) ==
    [ent_coef : ent_coefs, vf_coef : vf_coefs, max_grad_norm : norms,
     nbatch_train : nbatches, microbatch_size : microbatches]

\* ------------------------------------------------------------------------
\* The specifications
\* ------------------------------------------------------------------------
PolicyIdle ==
    /\ spaces = [ob_space |-> [shape |-> <<1>>], co_space |-> None]
    /\ ob_dim = <<>>
    /\ processed = <<>>

\* before any process has called Model.__init__
Unbuilt ==
    /\ pc = [r \in Ranks |-> "start"]
    /\ graph = [r \in Ranks |-> NoGraph]
    /\ store = [r \in Ranks |-> <<>>]
    /\ comm = <<>>
    /\ saved = <<>>
    /\ nupdates = [r \in Ranks |-> 0]
    /\ restored = [r \in Ranks |-> FALSE]
    /\ last = <<>>
    /\ acted = <<>>

\* the root has run Model.__init__ without MPI, the others have not started
RootBuilt ==
    /\ MPI = FALSE
    /\ pc = [r \in Ranks |-> IF r = Root THEN "ready" ELSE "start"]
    /\ graph = [r \in Ranks |-> IF r = Root THEN BuiltGraph(hyper) ELSE NoGraph]
    /\ store = [r \in Ranks |->
                  IF r = Root
                  THEN [n \in Range(BuiltGraph(hyper).global_variables) |-> Zero]
                  ELSE <<>>]
    /\ comm = <<>>
    /\ saved = <<>>
    /\ nupdates = [r \in Ranks |-> 0]
    /\ restored = [r \in Ranks |-> FALSE]
    /\ last = <<>>
    /\ acted = <<>>

\* The processes of one run: construction, then step, train, save and load
Init ==
    /\ MPI \in BOOLEAN
    /\ hyper \in Hypers({Rat(1, 100)}, {Half}, {Half}, {MaxBatch},
                        {None, <<1>>})
    /\ Unbuilt
    /\ PolicyIdle

Next ==
    \E r \in Ranks :
        \/ BuildGraph(r)
        \/ Initialize(r)
        \/ SyncFromRoot(r)
        \/ Step(r)
        \/ Save(r)
        \/ Load(r)
        \/ Train(r, {One}, {Rat(1, 5)}, RankSamples, RankJacobians)

Spec == Init /\ [][Next]_vars

\* The loss of one train call, over the batches of every length
InitLoss ==
    /\ hyper \in Hypers({Rat(1, 100)}, {Half}, {None}, 1..MaxBatch, {None})
    /\ RootBuilt
    /\ PolicyIdle

NextLoss ==
    /\ nupdates[Root] = 0
    /\ Train(Root, {One}, ClipRanges, LossSamples, {NoJacobian})

SpecLoss == InitLoss /\ [][NextLoss]_vars

\* The update of one train call, over the coefficients and the norms
InitUpdate ==
    /\ hyper \in Hypers({Zero, One}, {Half, One},
                        {None, Rat(1, 1), Rat(5, 1)}, {MaxBatch}, {None})
    /\ RootBuilt
    /\ PolicyIdle

NextUpdate ==
    /\ nupdates[Root] = 0
    /\ Train(Root, {Half}, {Rat(1, 5)}, UpdateSamples, Jacobians)

SpecUpdate == InitUpdate /\ [][NextUpdate]_vars

\* Policy's helpers on every pair of spaces
InitPolicy ==
    /\ spaces \in [ob_space : Spaces,
                   co_space : {None} \cup {<<s>> : s \in Spaces}]
    /\ ob_dim = <<>>
    /\ processed = <<>>
    /\ MPI = FALSE
    /\ hyper \in Hypers({Zero}, {Half}, {None}, {1}, {None})
    /\ Unbuilt

NextPolicy == CallGetObDim \/ CallGetObs

SpecPolicy == InitPolicy /\ [][NextPolicy]_vars

\* ------------------------------------------------------------------------
\* The claims
\* ------------------------------------------------------------------------
\* the mathematical clip of x to the interval [lo, hi]
ClipTo(x, lo, hi) == IF RLt(x, lo) THEN lo ELSE IF RLt(hi, x) THEN hi ELSE x

\* the values a rank's train_model reads
TrainModelValues(r) ==
    [i \in 1..Len(graph[r].train_model) |-> store[r][graph[r].train_model[i]]]

\* C1: with MPI imported, ranks that hold the same parameters after
\* construction and have made the same number of train calls (and no load)
\* hold the same parameters, whatever batches they were fed.
C1_RanksStayInSync ==
    (/\ MPI
     /\ \A r \in Ranks : pc[r] = "ready" /\ ~restored[r]
     /\ \A r \in Ranks : nupdates[r] = nupdates[Root])
    => \A r \in Ranks : store[r] = store[Root]

\* C2: the loss of a train call is pg_loss - ent_coef * entropy
\* + vf_coef * vf_loss and nothing else, and so are the gradients computed
\* for every parameter; with coefficients and terms >= 0 the entropy can
\* only lower the loss and the value loss only raise it.
C2_TotalLoss ==
    last # <<>> =>
        LET st == last[1].stats
            jac == last[1].jac
            ec == hyper.ent_coef
            vc == hyper.vf_coef
        IN  /\ last[1].loss =
                  RAdd(RSub(st.policy_loss, RMul(ec, st.policy_entropy)),
                       RMul(vc, st.value_loss))
            /\ RSub(RAdd(last[1].loss, RMul(ec, st.policy_entropy)),
                    RMul(vc, st.value_loss)) = st.policy_loss
            /\ (RLe(Zero, ec) /\ RLe(Zero, st.policy_entropy)) =>
                  RLe(last[1].loss,
                      RAdd(st.policy_loss, RMul(vc, st.value_loss)))
            /\ (RLe(Zero, vc) /\ RLe(Zero, st.value_loss)) =>
                  RLe(RSub(st.policy_loss, RMul(ec, st.policy_entropy)),
                      last[1].loss)
            /\ \A i \in 1..Len(last[1].computed) :
                  last[1].computed[i] =
                     RAdd(RSub(jac.pg[i], RMul(ec, jac.ent[i])),
                          RMul(vc, jac.vf[i]))

\* C2, witness: a train call in which all three terms and the entropy
\* coefficient are non-zero and the entropy has a gradient
C2_Witness ==
    /\ last # <<>>
    /\ hyper.ent_coef # Zero
    /\ last[1].stats.policy_entropy # Zero
    /\ last[1].stats.value_loss # Zero
    /\ last[1].stats.policy_loss # Zero
    /\ last[1].jac.ent[1] # Zero

\* C3, as claimed: the advantage fed for a sample is its return minus its
\* value.
C3_AdvIsReturnMinusValue ==
    last # <<>> =>
        \A i \in 1..Len(last[1].td.ADV) :
            last[1].td.ADV[i] = RSub(last[1].td.R[i], last[1].td.OLDVPRED[i])

\* C3, amended: the advantage fed for a sample is its return minus its
\* value, normalized over the batch: with a = returns - values, m the mean
\* and s the population standard deviation of a, ADV[i] * s = a[i] - m, and
\* ADV[i] = 0 when s = 0; so ADV has mean 0 over the batch and, when s > 0,
\* mean square 1.
C3_AdvIsNormalized ==
    last # <<>> =>
        LET td == last[1].td
            n == Len(td.ADV)
            a == [i \in 1..n |-> RSub(td.R[i], td.OLDVPRED[i])]
            m == RDiv(RSum(a), <<n, 1>>)
            var == RDiv(RSum([i \in 1..n |-> RSquare(RSub(a[i], m))]), <<n, 1>>)
            sq == RDiv(RSum([i \in 1..n |-> RSquare(td.ADV[i])]), <<n, 1>>)
        IN  /\ n = Len(td.R)
            /\ RSum(td.ADV) = Zero
            /\ var = Zero => \A i \in 1..n : td.ADV[i] = Zero
            /\ var # Zero => sq = One
            /\ \A i \in 1..n :
                  /\ RMul(RSquare(td.ADV[i]), var) = RSquare(RSub(a[i], m))
                  /\ RLt(Zero, td.ADV[i]) <=> RLt(m, a[i])

\* C3, witness: a batch on which the fed advantage is neither 0 nor the
\* return minus the value
C3_Witness ==
    /\ last # <<>>
    /\ \E i \in 1..Len(last[1].td.ADV) :
          /\ last[1].td.ADV[i] # Zero
          /\ last[1].td.ADV[i] #
                RSub(last[1].td.R[i], last[1].td.OLDVPRED[i])

\* C4: for clip_range c >= 0 and every sample, with ratio =
\* exp(OLDNEGLOGPAC - neglogpac), the policy loss of the sample is
\* max(-ADV * ratio, -ADV * clip(ratio, 1 - c, 1 + c)): never below the
\* unclipped -ADV * ratio, equal to -ADV * (1 + c) when ADV > 0 and
\* ratio > 1 + c, and to -ADV * (1 - c) when ADV < 0 and ratio < 1 - c;
\* pg_loss is the mean over the batch.
C4_ClippedSurrogate ==
    (last # <<>> /\ RLe(Zero, last[1].td.clip_range)) =>
        LET td == last[1].td
            t == last[1].tensors
            c == td.clip_range
        IN  /\ last[1].stats.policy_loss =
                  RDiv(RSum(t.pg_losses), <<Len(t.pg_losses), 1>>)
            /\ \A i \in 1..Len(td.ADV) :
                  LET adv == td.ADV[i]
                      ratio == t.ratio[i]
                      unclipped == RMul(RNeg(adv), ratio)
                      clipped == RMul(RNeg(adv),
                                      ClipTo(ratio, RSub(One, c), RAdd(One, c)))
                  IN  /\ ratio = Exp(RSub(td.OLDNEGLOGPAC[i],
                                          last[1].net.neglogpac[i]))
                      /\ RLt(Zero, ratio)
                      /\ t.pg_losses[i] =
                            (IF RLe(unclipped, clipped) THEN clipped
                             ELSE unclipped)
                      /\ RLe(unclipped, t.pg_losses[i])
                      /\ (RLt(Zero, adv) /\ RLt(RAdd(One, c), ratio)) =>
                            t.pg_losses[i] = RMul(RNeg(adv), RAdd(One, c))
                      /\ (RLt(adv, Zero) /\ RLt(ratio, RSub(One, c))) =>
                            t.pg_losses[i] = RMul(RNeg(adv), RSub(One, c))

\* C4, witness: a batch with a sample of positive advantage whose ratio is
\* above the band and a sample of negative advantage whose ratio is below
C4_Witness ==
    /\ last # <<>>
    /\ RLt(Zero, last[1].td.clip_range)
    /\ \E i, j \in 1..Len(last[1].td.ADV) :
          /\ RLt(Zero, last[1].td.ADV[i])
          /\ RLt(RAdd(One, last[1].td.clip_range), last[1].tensors.ratio[i])
          /\ RLt(last[1].td.ADV[j], Zero)
          /\ RLt(last[1].tensors.ratio[j], RSub(One, last[1].td.clip_range))

C6_GlobalNormClipping ==
    last # <<>> =>
        LET computed == last[1].computed
            grads == last[1].grads
            gv == last[1].grads_and_var
            n == Len(computed)
            norm2 == RSum([i \in 1..n |-> RSquare(computed[i])])
            clipped2 == RSum([i \in 1..n |-> RSquare(grads[i])])
        IN  /\ Len(grads) = n
            /\ Len(gv) = n
            /\ last[1].var = graph[Root].params
            /\ \A i \in 1..n :
                  gv[i] = [grad |-> grads[i], var |-> graph[Root].params[i]]
            /\ hyper.max_grad_norm = None => grads = computed
            /\ hyper.max_grad_norm # None =>
                  LET max2 == RSquare(hyper.max_grad_norm)
                  IN  /\ RLe(clipped2, max2)
                      /\ RLe(norm2, max2) => grads = computed
                      /\ RLt(max2, norm2) => clipped2 = max2
                      /\ \A i, j \in 1..n :
                            /\ RMul(grads[i], computed[j]) =
                                  RMul(grads[j], computed[i])
                            /\ RLe(Zero, RMul(grads[i], computed[i]))

\* C6, witness: a train call whose two gradients are non-zero and whose
\* global norm is above max_grad_norm
C6_Witness ==
    /\ last # <<>>
    /\ hyper.max_grad_norm # None
    /\ \A i \in 1..Len(last[1].computed) : last[1].computed[i] # Zero
    /\ last[1].grads # last[1].computed

\* C7: approxkl = 0.5 * mean((neglogpac - OLDNEGLOGPAC)^2) is >= 0 and
\* clipfrac is in [0, 1]; when neglogpac = OLDNEGLOGPAC on every sample and
\* clip_range >= 0, every ratio is 1, approxkl = 0, clipfrac = 0 and
\* pg_loss = -mean(ADV).
C7_DriftDiagnostics ==
    last # <<>> =>
        LET td == last[1].td
            st == last[1].stats
            nlp == last[1].net.neglogpac
            n == Len(nlp)
        IN  /\ st.approxkl =
                  RMul(Half,
                       RDiv(RSum([i \in 1..n |->
                                     RSquare(RSub(nlp[i], td.OLDNEGLOGPAC[i]))]),
                            <<n, 1>>))
            /\ RLe(Zero, st.approxkl)
            /\ RLe(Zero, st.clipfrac)
            /\ RLe(st.clipfrac, One)
            /\ (/\ RLe(Zero, td.clip_range)
                /\ \A i \in 1..n : nlp[i] = td.OLDNEGLOGPAC[i]) =>
                  /\ \A i \in 1..n : last[1].tensors.ratio[i] = One
                  /\ st.approxkl = Zero
                  /\ st.clipfrac = Zero
                  /\ st.policy_loss = RNeg(RDiv(RSum(td.ADV), <<n, 1>>))

\* C7, witness: a batch without drift, fed with a clip_range of 0 and
\* advantages that are not all 0
C7_Witness ==
    /\ last # <<>>
    /\ last[1].td.clip_range = Zero
    /\ \A i \in 1..Len(last[1].td.ADV) :
          last[1].net.neglogpac[i] = last[1].td.OLDNEGLOGPAC[i]
    /\ \E i \in 1..Len(last[1].td.ADV) : last[1].td.ADV[i] # Zero

SharedParameters ==
    \A r \in Ranks :
        pc[r] # "start" =>
            /\ graph[r].act_model = graph[r].train_model
            /\ graph[r].params = graph[r].train_model
            /\ Range(graph[r].global_variables) = Range(graph[r].params)
            /\ \A i \in 1..Len(graph[r].act_model) :
                  store[r][graph[r].act_model[i]] = TrainModelValues(r)[i]

\* C9: for either choice of microbatch_size, after construction and any
\* train, save and load calls, act_model and train_model are the same
\* variables, and every step reads the values train_model holds then.
C9_SharedParameters ==
    /\ []SharedParameters
    /\ [][acted' # acted =>
             \E r \in Ranks :
                 pc[r] = "ready" /\ acted'[1] = TrainModelValues(r)]_vars

\* C9, witness: a step that has read parameters a train call has moved off
\* their initial values
C9_Witness ==
    /\ acted # <<>>
    /\ \E r \in Ranks :
          /\ nupdates[r] > 0
          /\ acted[1] = TrainModelValues(r)
          /\ \E i \in 1..Len(acted[1]) : acted[1][i] \notin {Zero, One}

\* C10: on every rank the variables have no value before initialize(), have
\* one from it on, the broadcast comes after it, and train calls come
\* after construction.  With MPI imported a rank ends construction only
\* after the root's broadcast, and until its first train or load call holds
\* the values the root initialized; without MPI nothing is broadcast.
C10_StartupOrder ==
    /\ comm # <<>> =>
          /\ MPI
          /\ pc[Root] = "ready"
          /\ \A n \in DOMAIN comm[1] : comm[1][n] # Uninitialized
    /\ \A r \in Ranks :
          /\ pc[r] = "start" => DOMAIN store[r] = {}
          /\ pc[r] = "built" =>
                \A n \in DOMAIN store[r] : store[r][n] = Uninitialized
          /\ pc[r] \in {"sync", "ready"} =>
                /\ DOMAIN store[r] # {}
                /\ \A n \in DOMAIN store[r] : store[r][n] # Uninitialized
          /\ pc[r] = "sync" => MPI
          /\ pc[r] # "ready" => nupdates[r] = 0 /\ ~restored[r]
          /\ (MPI /\ pc[r] = "ready") => comm # <<>>
          /\ (MPI /\ pc[r] = "ready" /\ nupdates[r] = 0 /\ ~restored[r]) =>
                store[r] = comm[1]

\* C10, witness: with MPI, every rank has ended construction and holds the
\* root's values
C10_Witness ==
    /\ MPI
    /\ \A r \in Ranks :
          pc[r] = "ready" /\ nupdates[r] = 0 /\ store[r] = store[Root]

====
